---------------------------- MODULE Spec2Model ----------------------------
(***************************************************************************)
(* A model of src/main.py (image_to_ascii): the aspect-preserving resizer, *)
(* the brightness mapper, the grid renderer and the batch pipeline.        *)
(*                                                                         *)
(* Python's float is an IEEE-754 binary64.  The arithmetic the program     *)
(* does in floats (max_size / width, width * scale_factor, the mapper's    *)
(* v / 255 * (L - 1) + 0.5) is modelled bit for bit: a float is a record   *)
(* [m, e] with m its 53-bit significand (most significant bit first,       *)
(* leading bit 1; <<>> for zero) and value m * 2^e, every operation        *)
(* rounding to nearest, ties to even, as the hardware does.                *)
(***************************************************************************)
EXTENDS Integers, Sequences, FiniteSets, TLC

----------------------------------------------------------------------------
(* Program constants, src/main.py lines 6-13 *)

\* Characters are one-character strings and Python strings sequences of them.
\* The density scale of line 8 has 28 characters.
DENSITY_STRING ==
    << "Ñ", "@", "#", "W", "$", "9", "8", "7", "6", "5", "4", "3", "2", "1",
       "0", "?", "!", "a", "b", "c", ";", ":", "+", "=", "-", ",", ".", " " >>

MAX_SIZE == 200

SCALE_FACTOR == 10

\* Significand width of a Python float (IEEE-754 binary64).
MantBits == 53

----------------------------------------------------------------------------
(* Bounds of the model *)

\* Original image sides range over 1..MaxDim.
MaxDim == 100

\* max_size ranges over 1..MaxBound and the configured MAX_SIZE.
MaxBound == 2

----------------------------------------------------------------------------
(* Binary64 arithmetic.  Significands are bit sequences; sums, products   *)
(* and quotients are computed on their base-256 digits ("limbs").          *)

Zeros(n) == [i \in 1..n |-> 0]

Front(s) == SubSeq(s, 1, Len(s) - 1)

Last(s) == s[Len(s)]

Min(a, b) == IF a <= b THEN a ELSE b

Max(a, b) == IF a >= b THEN a ELSE b

\* 2^k for k in 0..30
Pow2Tab ==
    << 1, 2, 4, 8, 16, 32, 64, 128, 256, 512, 1024, 2048, 4096, 8192, 16384,
       32768, 65536, 131072, 262144, 524288, 1048576, 2097152, 4194304,
       8388608, 16777216, 33554432, 67108864, 134217728, 268435456,
       536870912, 1073741824 >>

Pow2(k) == Pow2Tab[k + 1]

\* bit j (weight 2^j) of the integer v >= 0
Bit(v, j) == (v \div Pow2(j)) % 2

\* b without its leading zeros
StripZeros(b) ==
    IF \A i \in 1..Len(b) : b[i] = 0 THEN <<>>
    ELSE LET f == CHOOSE i \in 1..Len(b) :
                      b[i] = 1 /\ \A j \in 1..(i - 1) : b[j] = 0
         IN  SubSeq(b, f, Len(b))

\* The binary digits of n (0 <= n < 2^31), most significant first, no
\* leading zero.
ToBits(n) == StripZeros([j \in 1..31 |-> Bit(n, 31 - j)])

\* The base-256 digits of the number with binary digits p (a multiple of 8
\* of them)
LimbsOfBytes(p) ==
    [i \in 1..(Len(p) \div 8) |->
        128 * p[8 * i - 7] + 64 * p[8 * i - 6] + 32 * p[8 * i - 5]
        + 16 * p[8 * i - 4] + 8 * p[8 * i - 3] + 4 * p[8 * i - 2]
        + 2 * p[8 * i - 1] + p[8 * i]]

\* The base-256 digits of the number with binary digits b, and back.
LimbsOfBits(b) == LimbsOfBytes(Zeros(8 * ((Len(b) + 7) \div 8) - Len(b)) \o b)

BitsOfLimbs(l) ==
    [j \in 1..(8 * Len(l)) |-> Bit(l[(j + 7) \div 8], 7 - ((j - 1) % 8))]

RECURSIVE LimbsToInt(_)
LimbsToInt(l) == IF l = <<>> THEN 0 ELSE 256 * LimbsToInt(Front(l)) + Last(l)

BitsToInt(b) == LimbsToInt(LimbsOfBits(b))

\* b with bit z set and the bits after it cleared
CarryInto(b, z) ==
    [i \in 1..Len(b) |-> IF i < z THEN b[i] ELSE IF i = z THEN 1 ELSE 0]

\* b + 1, for a bit sequence b
Inc(b) ==
    IF \A i \in 1..Len(b) : b[i] = 1 THEN << 1 >> \o Zeros(Len(b))
    ELSE CarryInto(b, CHOOSE i \in 1..Len(b) :
                          b[i] = 0 /\ \A j \in (i + 1)..Len(b) : b[j] = 1)

\* x + y + c on limb sequences
RECURSIVE AddCarry(_, _, _)
AddCarry(x, y, c) ==
    IF x = <<>> /\ y = <<>> THEN (IF c = 0 THEN <<>> ELSE << c >>)
    ELSE LET a == IF x = <<>> THEN 0 ELSE Last(x)
             b == IF y = <<>> THEN 0 ELSE Last(y)
             t == a + b + c
         IN  AddCarry(IF x = <<>> THEN x ELSE Front(x),
                      IF y = <<>> THEN y ELSE Front(y), t \div 256)
             \o << t % 256 >>

\* l * n + c on a limb sequence l, for a small integer n
RECURSIVE MulCarry(_, _, _)
MulCarry(l, n, c) ==
    IF l = <<>> THEN LimbsOfBits(ToBits(c))
    ELSE LET t == Last(l) * n + c
         IN  MulCarry(Front(l), n, t \div 256) \o << t % 256 >>

\* n more base-256 quotient digits of r / b (r < b), and the remainder left
RECURSIVE LongDiv(_, _, _)
LongDiv(r, b, n) ==
    IF n = 0 THEN [limbs |-> <<>>, rem |-> r]
    ELSE LET rest == LongDiv((256 * r) % b, b, n - 1)
         IN  [limbs |-> << (256 * r) \div b >> \o rest.limbs, rem |-> rest.rem]

FZero == [m |-> <<>>, e |-> 0]

\* The literal 0.5
FHalf == [m |-> << 1 >> \o Zeros(MantBits - 1), e |-> 0 - MantBits]

\* The float with significand r, the rounded first MantBits of an n-bit
\* number whose last bit weighs 2^e: a carry out of the rounding halves it.
Renormalize(r, n, e) ==
    IF Len(r) > MantBits
    THEN [m |-> Front(r), e |-> e + (n - MantBits) + 1]
    ELSE [m |-> r, e |-> e + (n - MantBits)]

RoundUp(keep, guard, tail) == guard = 1 /\ (tail \/ keep[MantBits] = 1)

RoundKeep(keep, up, n, e) == Renormalize(IF up THEN Inc(keep) ELSE keep, n, e)

\* The float nearest to bits * 2^e (+ a nonzero tail below the last bit when
\* sticky), ties to even.  bits starts with a 1.
RoundNearestEven(bits, sticky, e) ==
    IF Len(bits) <= MantBits
    THEN [m |-> bits \o Zeros(MantBits - Len(bits)),
          e |-> e - (MantBits - Len(bits))]
    ELSE RoundKeep(SubSeq(bits, 1, MantBits),
                   RoundUp(SubSeq(bits, 1, MantBits), bits[MantBits + 1],
                           sticky \/ \E i \in (MantBits + 2)..Len(bits) :
                                         bits[i] = 1),
                   Len(bits), e)

\* the least k with a * 2^k >= b
RECURSIVE ShiftUp(_, _)
ShiftUp(a, b) == IF a >= b THEN 0 ELSE 1 + ShiftUp(2 * a, b)

\* The quotient with integer part q and fraction fr (56 bits and what is left),
\* scaled by 2^-k
RoundQuotient(q, fr, k) ==
    RoundNearestEven(ToBits(q) \o BitsOfLimbs(fr.limbs), fr.rem # 0, 0 - k - 56)

ScaledDiv(a1, b, k) == RoundQuotient(a1 \div b, LongDiv(a1 % b, b, 7), k)

\* a / b for Python ints a >= 0, b > 0: the correctly rounded quotient
TrueDiv(a, b) ==
    IF a = 0 THEN FZero ELSE ScaledDiv(a * Pow2(ShiftUp(a, b)), b, ShiftUp(a, b))

\* n * f (or f * n) for a Python int n >= 0 and a float f: n converts to a
\* float exactly and the exact product is rounded once
IntMulFloat(n, f) ==
    IF n = 0 \/ f.m = <<>> THEN FZero
    ELSE RoundNearestEven(
             StripZeros(BitsOfLimbs(MulCarry(LimbsOfBits(f.m), n, 0))),
             FALSE, f.e)

\* x + y for floats x, y >= 0
FAdd(x, y) ==
    IF x.m = <<>> THEN y
    ELSE IF y.m = <<>> THEN x
    ELSE LET e0 == Min(x.e, y.e)
             xs == LimbsOfBits(x.m \o Zeros(x.e - e0))
             ys == LimbsOfBits(y.m \o Zeros(y.e - e0))
         IN  RoundNearestEven(StripZeros(BitsOfLimbs(AddCarry(xs, ys, 0))),
                              FALSE, e0)

\* int(f): truncation toward zero
FloatToInt(f) ==
    IF f.m = <<>> THEN 0
    ELSE IF f.e >= 0 THEN BitsToInt(f.m \o Zeros(f.e))
    ELSE IF 0 - f.e >= MantBits THEN 0
    ELSE BitsToInt(SubSeq(f.m, 1, MantBits + f.e))

----------------------------------------------------------------------------
(* resize_image, src/main.py lines 41-54 *)

\* new_size = (int(width * scale_factor), int(height * scale_factor))
ScaledSize(width, height, scale_factor) ==
    << FloatToInt(IntMulFloat(width, scale_factor)),
       FloatToInt(IntMulFloat(height, scale_factor)) >>

\* resize_image as it would be if it left alone an image that already fits
\* the bound (what Image.thumbnail does).
resize_image_only_shrinks(width, height, max_size) ==
    IF width <= max_size /\ height <= max_size
    THEN << width, height >>
    ELSE ScaledSize(width, height,
                    IF width > height
                    THEN TrueDiv(max_size, width)
                    ELSE TrueDiv(max_size, height))

\* new_size of resize_image for an image of size (width, height)
resize_image(width, height, max_size) ==
    ScaledSize(width, height,
               IF width > height
               THEN TrueDiv(max_size, width)
               ELSE TrueDiv(max_size, height))

----------------------------------------------------------------------------
(* luminance_to_ascii_char, src/main.py lines 76-81 *)

\* Python values that the claims tell apart carry their type.
PyInt(n) == [type |-> "int", val |-> n]

PyStr(c) == [type |-> "str", val |-> c]

PyNone == [type |-> "NoneType", val |-> 0]

\* int(luminance_data / 255 * (len(DENSITY_STRING) - 1) + 0.5)
density_index(luminance_data) ==
    FloatToInt(FAdd(IntMulFloat(Len(DENSITY_STRING) - 1,
                                TrueDiv(luminance_data, 255)), FHalf))

\* luminance_to_ascii_char without the inversion against the scale's order.
luminance_to_ascii_char_not_inverted(luminance_data) ==
    PyInt(density_index(luminance_data))

\* The value returned: the int len(DENSITY_STRING) - density_index - 1.
luminance_to_ascii_char(luminance_data) ==
    PyInt(Len(DENSITY_STRING) - density_index(luminance_data) - 1)

----------------------------------------------------------------------------
(* Python strings: sequences of one-character strings *)

UpperCase ==
    << "A", "B", "C", "D", "E", "F", "G", "H", "I", "J", "K", "L", "M",
       "N", "O", "P", "Q", "R", "S", "T", "U", "V", "W", "X", "Y", "Z" >>

LowerCase ==
    << "a", "b", "c", "d", "e", "f", "g", "h", "i", "j", "k", "l", "m",
       "n", "o", "p", "q", "r", "s", "t", "u", "v", "w", "x", "y", "z" >>

LowerChar(c) ==
    IF \E k \in 1..Len(UpperCase) : UpperCase[k] = c
    THEN LowerCase[CHOOSE k \in 1..Len(UpperCase) : UpperCase[k] = c]
    ELSE c

\* str.lower
Lower(s) == [k \in 1..Len(s) |-> LowerChar(s[k])]

\* str.endswith with one suffix
EndsWith(s, suffix) ==
    /\ Len(s) >= Len(suffix)
    /\ SubSeq(s, Len(s) - Len(suffix) + 1, Len(s)) = suffix

\* s.split(".")[0]: what precedes the first "." (all of s when it has none)
SplitFirst(s) ==
    IF \E k \in 1..Len(s) : s[k] = "."
    THEN SubSeq(s, 1, (CHOOSE k \in 1..Len(s) :
                           s[k] = "." /\ \A j \in 1..(k - 1) : s[j] # ".") - 1)
    ELSE s

SUPPORTED_FORMATS ==
    << << ".", "p", "n", "g" >>, << ".", "j", "p", "g" >>,
       << ".", "j", "p", "e", "g" >> >>

OUTPUT_DIRECTORY == << "o", "u", "t", "p", "u", "t", "/" >>

\* file_name.lower().endswith(SUPPORTED_FORMATS), src/main.py line 31
IsSupported(file_name) ==
    \E k \in 1..Len(SUPPORTED_FORMATS) :
        EndsWith(Lower(file_name), SUPPORTED_FORMATS[k])

\* os.path.join(OUTPUT_DIRECTORY, f"{file_name}.svg"), src/main.py line 93
SvgPath(file_name) == OUTPUT_DIRECTORY \o file_name \o << ".", "s", "v", "g" >>

----------------------------------------------------------------------------
(* Bounds and inputs of the renderer and of the batch *)

\* The renderer's grid sides range over 1..MaxGrid.
MaxGrid == 2

\* A luminance buffer holds at most width * height + MaxExtra samples.
MaxExtra == 1

\* The samples the buffers are filled with.
LumSamples == {0, 255}

\* The input directory lists at most MaxFiles entries.
MaxFiles == 2

\* The entries a directory listing is drawn from.
DirEntries ==
    { << "a", ".", "p", "n", "g" >>,
      << "a", ".", "j", "p", "g" >>,
      << "a", ".", "b", ".", "p", "n", "g" >>,
      << "B", ".", "J", "P", "E", "G" >>,
      << "c", ".", "t", "x", "t" >>,
      << "p", "n", "g" >> }

\* The sizes of the decoded images.
ImageSizes == { << 2, 1 >>, << 97, 97 >> }

RECURSIVE SeqsUpTo(_, _)
SeqsUpTo(S, n) ==
    IF n = 0 THEN { <<>> }
    ELSE LET shorter == SeqsUpTo(S, n - 1)
         IN  shorter \cup { Append(q, x) : q \in shorter, x \in S }

\* What os.listdir may return: distinct entries in any order.
Listings ==
    { l \in SeqsUpTo(DirEntries, MaxFiles) :
        \A j, k \in 1..Len(l) : j # k => l[j] # l[k] }

----------------------------------------------------------------------------
(* State *)

VARIABLES
    \* resize_image: the image's size, the bound, the size computed
    r_width, r_height, r_max_size, r_new_size, r_pc,
    \* luminance_to_ascii_char: this call's argument and result, and the
    \* previous call's
    m_luminance, m_character, m_prev_luminance, m_prev_character, m_pc,
    \* create_svg: its arguments, the loop's x and y, the drawing's elements
    \* and the files saved
    s_luminance_data, s_width, s_height, s_file_name, s_x, s_y, s_elements,
    s_saved, s_pc,
    \* main and load_images_from_directory: the directory listing, the lists
    \* main builds, the loop index i, the file_name of line 130 and the
    \* files written to the output directory, in the order written
    listing, file_names, original_images, resized_images, contrasted_images,
    rgb_data, luminance_data, file_name, written, i, pc

r_vars == << r_width, r_height, r_max_size, r_new_size, r_pc >>

m_vars ==
    << m_luminance, m_character, m_prev_luminance, m_prev_character, m_pc >>

s_vars ==
    << s_luminance_data, s_width, s_height, s_file_name, s_x, s_y, s_elements,
       s_saved, s_pc >>

main_vars ==
    << listing, file_names, original_images, resized_images,
       contrasted_images, rgb_data, luminance_data, file_name, written, i, pc >>

vars == << r_vars, m_vars, s_vars, main_vars >>

\* A component that a specification does not run stays idle.
ResizeIdle ==
    /\ r_width = 1 /\ r_height = 1 /\ r_max_size = 1
    /\ r_new_size = << 0, 0 >> /\ r_pc = "idle"

MapperIdle ==
    /\ m_luminance = 0 /\ m_character = PyNone
    /\ m_prev_luminance = 0 /\ m_prev_character = PyNone /\ m_pc = "idle"

SvgIdle ==
    /\ s_luminance_data = <<>> /\ s_width = 0 /\ s_height = 0
    /\ s_file_name = <<>> /\ s_x = 0 /\ s_y = 0 /\ s_elements = <<>>
    /\ s_saved = <<>> /\ s_pc = "idle"

MainIdle ==
    /\ listing = <<>> /\ file_names = <<>> /\ original_images = <<>>
    /\ resized_images = <<>> /\ contrasted_images = <<>> /\ rgb_data = <<>>
    /\ luminance_data = <<>> /\ file_name = <<>> /\ written = <<>>
    /\ i = 1 /\ pc = "idle"

----------------------------------------------------------------------------
(* resize_image called on every image size and bound *)

ResizeInit ==
    /\ r_width \in 1..MaxDim
    /\ r_height \in 1..MaxDim
    /\ r_max_size \in (1..MaxBound) \cup {MAX_SIZE}
    /\ r_new_size = << 0, 0 >>
    /\ r_pc = "call"
    /\ MapperIdle /\ SvgIdle /\ MainIdle

ResizeCall ==
    /\ r_pc = "call"
    /\ r_new_size' = resize_image(r_width, r_height, r_max_size)
    /\ r_pc' = "done"
    /\ UNCHANGED << r_width, r_height, r_max_size, m_vars, s_vars, main_vars >>

SpecResize == ResizeInit /\ [][ResizeCall]_vars

----------------------------------------------------------------------------
(* luminance_to_ascii_char called on one sample after another *)

MapperInit ==
    /\ m_luminance \in 0..255
    /\ m_character = PyNone
    /\ m_prev_luminance = 0
    /\ m_prev_character = PyNone
    /\ m_pc = "call"
    /\ ResizeIdle /\ SvgIdle /\ MainIdle

MapperCall ==
    /\ m_pc = "call"
    /\ m_character' = luminance_to_ascii_char(m_luminance)
    /\ m_pc' = "done"
    /\ UNCHANGED << m_luminance, m_prev_luminance, m_prev_character,
                    r_vars, s_vars, main_vars >>

\* The caller goes on to the next sample (src/main.py line 105, in the loop).
\* The model follows two consecutive calls: the second sample is drawn once.
MapperNextSample ==
    /\ m_pc = "done"
    /\ m_prev_character = PyNone
    /\ m_prev_luminance' = m_luminance
    /\ m_prev_character' = m_character
    /\ m_luminance' \in 0..255
    /\ m_character' = PyNone
    /\ m_pc' = "call"
    /\ UNCHANGED << r_vars, s_vars, main_vars >>

MapperNext == MapperCall \/ MapperNextSample

SpecMapper == MapperInit /\ [][MapperNext]_vars

----------------------------------------------------------------------------
(* create_svg, src/main.py lines 84-117 *)

cell_size(width, height) == Max(SCALE_FACTOR * width, SCALE_FACTOR * height)

\* The index with the roles of x and y exchanged.
CellIndexTransposed(x, y, width) == x * width + y

\* index = y * width + x, src/main.py line 104 (a Python index, from 0)
CellIndex(x, y, width) == y * width + x

\* The text primitive of cell (x, y), src/main.py lines 102-114
TextElement(x, y, width, height, character) ==
    [kind      |-> "text",
     text      |-> character,
     insert    |-> << x * cell_size(width, height) + cell_size(width, height) \div 2,
                      y * cell_size(width, height) + cell_size(width, height) \div 2 >>,
     font_size |-> cell_size(width, height),
     fill      |-> "white"]

\* The background, src/main.py line 99
RectElement ==
    [kind |-> "rect", text |-> PyNone, insert |-> << 0, 0 >>, font_size |-> 0,
     fill |-> "black"]

\* The loops of lines 100-101 have a cell (s_x, s_y) left to visit.
SvgInLoop == s_y < s_height /\ s_width > 0

SvgInit ==
    /\ s_width \in 1..MaxGrid
    /\ s_height \in 1..MaxGrid
    /\ s_luminance_data \in SeqsUpTo(LumSamples, s_width * s_height + MaxExtra)
    /\ s_file_name = << "i", "m", "g" >>
    /\ s_x = 0 /\ s_y = 0
    /\ s_elements = <<>>
    /\ s_saved = <<>>
    /\ s_pc = "start"
    /\ ResizeIdle /\ MapperIdle /\ MainIdle

\* Lines 89-99: the drawing and its background.
SvgBegin ==
    /\ s_pc = "start"
    /\ s_elements' = << RectElement >>
    /\ s_pc' = "loop"
    /\ UNCHANGED << s_luminance_data, s_width, s_height, s_file_name, s_x, s_y,
                    s_saved, r_vars, m_vars, main_vars >>

\* Lines 102-115: one pass of the inner loop.
SvgAddText ==
    /\ s_pc = "loop"
    /\ SvgInLoop
    /\ CellIndex(s_x, s_y, s_width) < Len(s_luminance_data)
    /\ s_elements' =
         Append(s_elements,
                TextElement(s_x, s_y, s_width, s_height,
                    luminance_to_ascii_char(
                        s_luminance_data[CellIndex(s_x, s_y, s_width) + 1])))
    /\ IF s_x + 1 < s_width
       THEN s_x' = s_x + 1 /\ s_y' = s_y
       ELSE s_x' = 0 /\ s_y' = s_y + 1
    /\ UNCHANGED << s_luminance_data, s_width, s_height, s_file_name, s_saved,
                    s_pc, r_vars, m_vars, main_vars >>

\* Line 105: luminance_data[index] past the end of the list raises IndexError.
SvgIndexError ==
    /\ s_pc = "loop"
    /\ SvgInLoop
    /\ CellIndex(s_x, s_y, s_width) >= Len(s_luminance_data)
    /\ s_pc' = "error"
    /\ UNCHANGED << s_luminance_data, s_width, s_height, s_file_name, s_x, s_y,
                    s_elements, s_saved, r_vars, m_vars, main_vars >>

\* Lines 116-117: dwg.save().
SvgSave ==
    /\ s_pc = "loop"
    /\ ~SvgInLoop
    /\ s_saved' = Append(s_saved, SvgPath(s_file_name))
    /\ s_pc' = "done"
    /\ UNCHANGED << s_luminance_data, s_width, s_height, s_file_name, s_x, s_y,
                    s_elements, r_vars, m_vars, main_vars >>

SvgNext == SvgBegin \/ SvgAddText \/ SvgIndexError \/ SvgSave

SpecSvg == SvgInit /\ [][SvgNext]_vars

----------------------------------------------------------------------------
(* main, src/main.py lines 119-135, with load_images_from_directory,       *)
(* lines 24-38.  An image is its size (width, height); the pixels are the  *)
(* imaging library's, so a pixel list and a luminance list are their       *)
(* lengths.  The decoded sizes of ImageSizes are resized by MAX_SIZE to    *)
(* sizes with no side 0.  main is modelled as called: the module's own     *)
(* entry (line 137) calls the string __name__ and line 1 imports from a    *)
(* package named pillow, both of which raise before main would run.        *)

\* A loop left after its first pass (a return or break inside the body).
LoopDoneAfterFirst(k, list) == k > Min(1, Len(list))

\* A for loop or comprehension over list, whose next item would be the k-th,
\* has no item left.
LoopDone(k, list) == k > Len(list)

\* The list the stage at pc runs over, and the stage that follows it.
StageList ==
    CASE pc = "load"      -> listing
      [] pc = "resize"    -> original_images
      [] pc = "enhance"   -> resized_images
      [] pc = "pixels"    -> contrasted_images
      [] pc = "luminance" -> rgb_data
      [] pc = "svg"       -> luminance_data
      [] OTHER            -> <<>>

NextStage ==
    CASE pc = "load"      -> "resize"
      [] pc = "resize"    -> "enhance"
      [] pc = "enhance"   -> "pixels"
      [] pc = "pixels"    -> "luminance"
      [] pc = "luminance" -> "svg"
      [] OTHER            -> "print"

Stages == {"load", "resize", "enhance", "pixels", "luminance", "svg"}

MainInit ==
    /\ listing \in Listings
    /\ file_names = <<>> /\ original_images = <<>> /\ resized_images = <<>>
    /\ contrasted_images = <<>> /\ rgb_data = <<>> /\ luminance_data = <<>>
    /\ file_name = <<>>
    /\ written = <<>>
    /\ i = 1
    /\ pc = "load"
    /\ ResizeIdle /\ MapperIdle /\ SvgIdle

\* Lines 31-35: a supported entry is decoded and appended.
MainLoad ==
    /\ pc = "load"
    /\ ~LoopDone(i, listing)
    /\ IsSupported(listing[i])
    /\ \E size \in ImageSizes :
           original_images' = Append(original_images, size)
    /\ file_names' = Append(file_names, listing[i])
    /\ i' = i + 1
    /\ UNCHANGED << listing, resized_images, contrasted_images, rgb_data,
                    luminance_data, file_name, written, pc,
                    r_vars, m_vars, s_vars >>

\* Line 20: Image.open raises on a file it cannot read.
MainLoadFails ==
    /\ pc = "load"
    /\ ~LoopDone(i, listing)
    /\ IsSupported(listing[i])
    /\ pc' = "error"
    /\ UNCHANGED << listing, file_names, original_images, resized_images,
                    contrasted_images, rgb_data, luminance_data, file_name,
                    written, i, r_vars, m_vars, s_vars >>

\* The entry is passed over (what line 37 does not do).
MainSkipUnsupported ==
    /\ pc = "load"
    /\ ~LoopDone(i, listing)
    /\ ~IsSupported(listing[i])
    /\ i' = i + 1
    /\ UNCHANGED << listing, file_names, original_images, resized_images,
                    contrasted_images, rgb_data, luminance_data, file_name,
                    written, pc, r_vars, m_vars, s_vars >>

\* Lines 36-37: any other entry raises TypeError.
MainUnsupported ==
    /\ pc = "load"
    /\ ~LoopDone(i, listing)
    /\ ~IsSupported(listing[i])
    /\ pc' = "error"
    /\ UNCHANGED << listing, file_names, original_images, resized_images,
                    contrasted_images, rgb_data, luminance_data, file_name,
                    written, i, r_vars, m_vars, s_vars >>

\* Line 121: resize_image(image) with the default max_size.
MainResize ==
    /\ pc = "resize"
    /\ ~LoopDone(i, original_images)
    /\ resized_images' =
           Append(resized_images,
                  resize_image(original_images[i][1], original_images[i][2],
                               MAX_SIZE))
    /\ i' = i + 1
    /\ UNCHANGED << listing, file_names, original_images, contrasted_images,
                    rgb_data, luminance_data, file_name, written, pc,
                    r_vars, m_vars, s_vars >>

\* Lines 123-126: the contrast enhancement keeps the size.
MainEnhance ==
    /\ pc = "enhance"
    /\ ~LoopDone(i, resized_images)
    /\ contrasted_images' = Append(contrasted_images, resized_images[i])
    /\ i' = i + 1
    /\ UNCHANGED << listing, file_names, original_images, resized_images,
                    rgb_data, luminance_data, file_name, written, pc,
                    r_vars, m_vars, s_vars >>

\* Line 127: get_pixel_data, one pixel for each cell.
MainPixels ==
    /\ pc = "pixels"
    /\ ~LoopDone(i, contrasted_images)
    /\ rgb_data' =
           Append(rgb_data, contrasted_images[i][1] * contrasted_images[i][2])
    /\ i' = i + 1
    /\ UNCHANGED << listing, file_names, original_images, resized_images,
                    contrasted_images, luminance_data, file_name, written, pc,
                    r_vars, m_vars, s_vars >>

\* Line 128: rgb_to_luminance, one value for each pixel.
MainLuminance ==
    /\ pc = "luminance"
    /\ ~LoopDone(i, rgb_data)
    /\ luminance_data' = Append(luminance_data, rgb_data[i])
    /\ i' = i + 1
    /\ UNCHANGED << listing, file_names, original_images, resized_images,
                    contrasted_images, rgb_data, file_name, written, pc,
                    r_vars, m_vars, s_vars >>

\* The file create_svg saves for the i-th image, lines 130-134 and 93-117.
SavedFile(k) ==
    [path  |-> SvgPath(SplitFirst(file_names[k])),
     size  |-> << SCALE_FACTOR * contrasted_images[k][1],
                  SCALE_FACTOR * contrasted_images[k][2] >>,
     texts |-> luminance_data[k],
     index |-> k]

\* Lines 129-134: one drawing is rendered and saved.
MainCreateSvg ==
    /\ pc = "svg"
    /\ ~LoopDone(i, luminance_data)
    /\ written' = Append(written, SavedFile(i))
    /\ file_name' = SavedFile(i).path
    /\ i' = i + 1
    /\ UNCHANGED << listing, file_names, original_images, resized_images,
                    contrasted_images, rgb_data, luminance_data, pc,
                    r_vars, m_vars, s_vars >>

\* The loop or comprehension of the stage ends and the next stage begins.
MainStageDone ==
    /\ pc \in Stages
    /\ LoopDone(i, StageList)
    /\ pc' = NextStage
    /\ i' = 1
    /\ UNCHANGED << listing, file_names, original_images, resized_images,
                    contrasted_images, rgb_data, luminance_data, file_name,
                    written, r_vars, m_vars, s_vars >>

\* Line 135: file_name is unbound when the loop of line 129 ran no pass.
MainPrint ==
    /\ pc = "print"
    /\ pc' = IF file_name = <<>> THEN "error" ELSE "done"
    /\ UNCHANGED << listing, file_names, original_images, resized_images,
                    contrasted_images, rgb_data, luminance_data, file_name,
                    written, i, r_vars, m_vars, s_vars >>

MainNext ==
    \/ MainLoad
    \/ MainLoadFails
    \/ MainUnsupported
    \/ MainResize
    \/ MainEnhance
    \/ MainPixels
    \/ MainLuminance
    \/ MainCreateSvg
    \/ MainStageDone
    \/ MainPrint

SpecMain == MainInit /\ [][MainNext]_vars

----------------------------------------------------------------------------
(* Properties of resize_image, under SpecResize *)

\* floor(shorter * M / longer), in exact integer arithmetic
ExactShorter(shorter, longer, max_size) == (shorter * max_size) \div longer

\* C1: for every image with width >= 1 and height >= 1 and every positive
\* bound M, the size resize_image computes has the longer original side
\* exactly M (both sides M when width = height) and the shorter side
\* floor(shorter * M / longer).
C1_LongerSideBecomesBound ==
    r_pc = "done" =>
        r_new_size =
            IF r_width > r_height
            THEN << r_max_size, ExactShorter(r_height, r_width, r_max_size) >>
            ELSE << ExactShorter(r_width, r_height, r_max_size), r_max_size >>

\* C7, as stated: an image whose width and height are both at most M is left
\* at its original dimensions.
C7_SmallImageLeftUnchanged ==
    (r_pc = "done" /\ r_width <= r_max_size /\ r_height <= r_max_size) =>
        r_new_size = << r_width, r_height >>

\* C7, amended: an image whose width and height are both at most M is scaled
\* up, not left alone: its longer side becomes M (M - 1 when the float
\* product falls just below M), neither side gets smaller, and the 2x1 image
\* with M = 200 becomes 200x100.
C7_SmallImageScaledUp ==
    (r_pc = "done" /\ r_width <= r_max_size /\ r_height <= r_max_size) =>
        /\ Max(r_new_size[1], r_new_size[2]) \in {r_max_size - 1, r_max_size}
        /\ r_new_size[1] >= r_width
        /\ r_new_size[2] >= r_height
        /\ (r_width = 2 /\ r_height = 1 /\ r_max_size = MAX_SIZE) =>
               r_new_size = << 200, 100 >>

\* The 2x1 image has been resized with the default bound, to 200x100.
C7_Witness ==
    /\ r_pc = "done"
    /\ r_width = 2 /\ r_height = 1 /\ r_max_size = MAX_SIZE
    /\ r_new_size = << 200, 100 >>

\* C10: every size resize_image computes from an image with width >= 1 and
\* height >= 1 (and M >= 1) has width >= 1 and height >= 1 again.
C10_ResizedSidesPositive ==
    r_pc = "done" => (r_new_size[1] >= 1 /\ r_new_size[2] >= 1)

----------------------------------------------------------------------------
(* Properties of luminance_to_ascii_char, under SpecMapper *)

\* v / 255 * (L - 1) rounded half-up, in exact integer arithmetic
RoundedIndex(v) ==
    (2 * v * (Len(DENSITY_STRING) - 1) + 255) \div (2 * 255)

\* C4: for every luminance value v in 0..255 the mapper returns the glyph
\* character scale[L - 1 - index] of the density scale (index = v / 255 *
\* (L - 1) rounded half-up), a character and not an integer position.
C4_MapperReturnsGlyph ==
    m_pc = "done" =>
        m_character =
            PyStr(DENSITY_STRING[Len(DENSITY_STRING) - RoundedIndex(m_luminance)])

\* C5: the mapper is monotonic: of two luminance values, the position of the
\* density scale chosen for the smaller is greater than or equal to the
\* position chosen for the larger.
C5_MapperMonotonic ==
    (m_pc = "done" /\ m_prev_character # PyNone) =>
        /\ m_prev_luminance < m_luminance =>
               m_prev_character.val >= m_character.val
        /\ m_prev_luminance > m_luminance =>
               m_prev_character.val <= m_character.val

\* Two samples have been mapped, the darker to a strictly greater position.
C5_Witness ==
    /\ m_pc = "done"
    /\ m_prev_character # PyNone
    /\ m_prev_luminance < m_luminance
    /\ m_prev_character.val > m_character.val

----------------------------------------------------------------------------
(* Properties of create_svg, under SpecSvg *)

\* The text primitives of the drawing: its elements after the background.
Texts == SubSeq(s_elements, 2, Len(s_elements))

MatchingBuffer == Len(s_luminance_data) = s_width * s_height

\* C6: for every luminance buffer of length width * height, create_svg emits
\* exactly width * height text primitives, one for each cell in row-major
\* order, the k-th (from 0) centred in cell (k mod width, k div width) and
\* taking its glyph from the sample at index k = y * width + x; the call
\* completes and every sample is used exactly once.
C6_OneTextPerCell ==
    MatchingBuffer =>
        /\ s_pc # "error"
        /\ s_pc = "done" => Len(Texts) = s_width * s_height
        /\ \A k \in 1..Len(Texts) :
               /\ Texts[k].kind = "text"
               /\ Texts[k].text = luminance_to_ascii_char(s_luminance_data[k])
               /\ Texts[k].insert =
                      << ((k - 1) % s_width) * cell_size(s_width, s_height)
                             + cell_size(s_width, s_height) \div 2,
                         ((k - 1) \div s_width) * cell_size(s_width, s_height)
                             + cell_size(s_width, s_height) \div 2 >>

\* A 2x2 grid with a buffer of four samples, not all alike, has been rendered
\* and saved.
C6_Witness ==
    /\ s_pc = "done"
    /\ s_width = 2 /\ s_height = 2
    /\ s_luminance_data = << 0, 255, 0, 0 >>
    /\ Len(Texts) = 4
    /\ s_saved # <<>>

\* C8: whenever the length of the luminance buffer differs from width *
\* height (shorter or longer), create_svg fails with an error and no
\* drawing is saved.
C8_LengthMismatchIsFatal ==
    ~MatchingBuffer => (s_pc # "done" /\ s_saved = <<>>)

----------------------------------------------------------------------------
(* Properties of main, under SpecMain *)

\* file_name without its image extension
BaseName(name) ==
    IF IsSupported(name)
    THEN LET k == CHOOSE j \in 1..Len(SUPPORTED_FORMATS) :
                      EndsWith(Lower(name), SUPPORTED_FORMATS[j])
         IN  SubSeq(name, 1, Len(name) - Len(SUPPORTED_FORMATS[k]))
    ELSE name

\* C2: a successful run of main writes one output file per input image,
\* named <base name>.svg for the input's name without its image extension,
\* so that n inputs yield n distinct output files, none overwritten.
C2_OneFilePerInput ==
    pc = "done" =>
        /\ Len(written) = Len(listing)
        /\ \A k \in 1..Len(written) :
               written[k].path = SvgPath(BaseName(listing[k]))
        /\ Cardinality({ written[k].path : k \in 1..Len(written) })
               = Len(listing)

HasUnsupported == \E k \in 1..Len(listing) : ~IsSupported(listing[k])

\* C3: when the directory lists an entry whose name does not end in a
\* supported extension, the batch fails in load_images_from_directory and no
\* output file is ever written, whatever the order of the listing.
C3_UnsupportedEntryNoOutput ==
    HasUnsupported => (written = <<>> /\ pc \in {"load", "error"})

\* A batch has failed on an unsupported entry listed after a decoded image.
C3_Witness ==
    /\ HasUnsupported
    /\ pc = "error"
    /\ Len(original_images) >= 1
    /\ ~IsSupported(listing[i])

\* C9, as stated: image k + 1 enters no stage (it is not even decoded) before
\* the drawing of image k has been persisted.
C9_OneImageAtATime ==
    \A k \in 1..(Len(listing) - 1) :
        Len(original_images) >= k + 1 => Len(written) >= k

\* C9, amended: the batch is processed stage by stage: every listed image is
\* decoded before any is resized, all are resized before any is enhanced,
\* all enhanced before any pixel list, all pixel lists before any luminance
\* list, all luminance lists before any drawing; the drawings are rendered
\* and persisted one at a time in input order.
C9_StageByStage ==
    /\ resized_images # <<>> => Len(original_images) = Len(listing)
    /\ contrasted_images # <<>> => Len(resized_images) = Len(original_images)
    /\ rgb_data # <<>> => Len(contrasted_images) = Len(resized_images)
    /\ luminance_data # <<>> => Len(rgb_data) = Len(contrasted_images)
    /\ written # <<>> => Len(luminance_data) = Len(rgb_data)
    /\ \A k \in 1..Len(file_names) : file_names[k] = listing[k]
    /\ \A k \in 1..Len(written) : written[k].index = k
    /\ pc = "done" => Len(written) = Len(listing)

\* A batch of two images has been processed to the end.
C9_Witness ==
    /\ pc = "done"
    /\ Len(listing) = 2
    /\ Len(written) = 2

=============================================================================
